---- MODULE Spec2Model ----
(***************************************************************************)
(* A model of crates/folo/src/metrics.rs: per-thread observation bags, the *)
(* thread-local registry BAGS, Event handles, report pages and the         *)
(* ReportBuilder that merges pages into a Report.                          *)
(*                                                                         *)
(* Magnitude is f64 in the source.  The model keeps the rounding of        *)
(* floating-point arithmetic: magnitudes are integers and every f64        *)
(* operation (+, *, usize as f64) rounds its exact result to MantBits      *)
(* significant bits, ties to even, as IEEE-754 binary64 does with 53.      *)
(* usize counts stay far below usize::MAX within the bounds, so their      *)
(* additions are exact.                                                    *)
(***************************************************************************)
EXTENDS Integers, Sequences, FiniteSets, TLC

\* ---------------------------------------------------------------- bounds
MantBits == 3      \* significant bits kept by the modelled float (53 in f64)
MaxBags == 2       \* bags ever allocated (over all threads)
MaxObs == 2        \* ObservationBag::insert calls
MaxPages == 2      \* ReportPages held by the caller at once
MaxPending == 2    \* observe_duration_async calls
NPages == 3        \* pages handed to one ReportBuilder

\* ---------------------------------------------------------------- inputs
Threads == {"t1", "t2"}
Names == {"test", "more"}
NoName == "<none>"
\* bucket upper bounds handed to EventBuilder::buckets (&[] is the default),
\* ascending as the callers of the builder give them
BucketConfigs == {<< >>, <<1, 3>>, <<2, 8>>}
\* magnitudes handed to observe
Magnitudes == {-1, 2, 8}
\* magnitudes and counts handed to observe_many
ManyMagnitudes == {2}
Counts == {0, 2}
\* elapsed seconds measured by the timed helpers
Durations == {0, 2}

VARIABLES
    heap,       \* the ObservationBags ever allocated, by Rc identity (index)
    BAGS,       \* the thread-local registry: thread -> (name -> bag identity)
    events,     \* the Event handles EventBuilder::build has returned
    built,      \* the last EventBuilder::build call: its arguments and result
    pages,      \* ReportPages captured and still held by the caller
    builder,    \* ReportBuilder.pages
    report,     \* what the last ReportBuilder::build produced
    pending,    \* the futures of the observe_duration_async calls
    log         \* history: per bag, the insert calls applied to it, in order

vars == <<heap, BAGS, events, built, pages, builder, report, pending, log>>

\* ------------------------------------------------------- f64 arithmetic
Abs(x) == IF x < 0 THEN -x ELSE x

RECURSIVE Pow2(_)
Pow2(n) == IF n = 0 THEN 1 ELSE 2 * Pow2(n - 1)

\* the spacing of the representable values around a: the least power of two
\* q with a < q * 2^MantBits
RECURSIVE Ulp(_, _)
Ulp(a, q) == IF a < q * Pow2(MantBits) THEN q ELSE Ulp(a, 2 * q)

\* round to nearest representable value, ties to even
Round(x) ==
    LET a == Abs(x)
        q == Ulp(a, 1)
        r == a % q
        lo == a - r
        up == IF 2 * r > q \/ (2 * r = q /\ (lo \div q) % 2 = 1)
              THEN lo + q ELSE lo
    IN  IF x < 0 THEN -up ELSE up

FAdd(a, b) == Round(a + b)
FMul(a, b) == Round(a * b)
AsMagnitude(n) == Round(n)

\* new with bucket_counts left empty (Vec::new() for vec![0; buckets.len()])
NewBagNoCounts(buckets) ==
    [count |-> 0, sum |-> 0,
     bucket_counts |-> << >>,
     bucket_magnitudes |-> buckets]

\* ------------------------------------------------------- ObservationBag
\* ObservationBag::new
NewBag(buckets) ==
    [count |-> 0, sum |-> 0,
     bucket_counts |-> [i \in 1..Len(buckets) |-> 0],
     bucket_magnitudes |-> buckets]

\* the loop of insert with < for <=
RECURSIVE FirstBucketStrict(_, _, _)
FirstBucketStrict(bucket_magnitudes, magnitude, i) ==
    IF i > Len(bucket_magnitudes) THEN 0
    ELSE IF magnitude < bucket_magnitudes[i] THEN i
    ELSE FirstBucketStrict(bucket_magnitudes, magnitude, i + 1)

\* the loop of insert: the index of the first bucket, from i on, whose upper
\* bound is >= magnitude; 0 when the loop ends without a break
RECURSIVE FirstBucket(_, _, _)
FirstBucket(bucket_magnitudes, magnitude, i) ==
    IF i > Len(bucket_magnitudes) THEN 0
    ELSE IF magnitude <= bucket_magnitudes[i] THEN i
    ELSE FirstBucket(bucket_magnitudes, magnitude, i + 1)

\* insert with the sum advanced by the magnitude alone
InsertSumOnce(bag, magnitude, count) ==
    LET i == FirstBucket(bag.bucket_magnitudes, magnitude, 1)
    IN  [bag EXCEPT
            !.count = @ + count,
            !.sum = FAdd(@, magnitude),
            !.bucket_counts =
                [j \in DOMAIN @ |-> IF j = i THEN @[j] + count ELSE @[j]]]

\* insert without the break of its loop: every bucket whose upper bound is
\* >= magnitude is incremented
InsertNoBreak(bag, magnitude, count) ==
    [bag EXCEPT
        !.count = @ + count,
        !.sum = FAdd(@, FMul(magnitude, AsMagnitude(count))),
        !.bucket_counts =
            [j \in DOMAIN @ |->
                IF magnitude <= bag.bucket_magnitudes[j] THEN @[j] + count ELSE @[j]]]

\* ObservationBag::insert, as the bag it leaves
Insert(bag, magnitude, count) ==
    LET i == FirstBucket(bag.bucket_magnitudes, magnitude, 1)
    IN  [bag EXCEPT
            !.count = @ + count,
            !.sum = FAdd(@, FMul(magnitude, AsMagnitude(count))),
            !.bucket_counts =
                [j \in DOMAIN @ |-> IF j = i THEN @[j] + count ELSE @[j]]]

\* snapshot with bucket_counts zeroed instead of cloned
SnapshotZeroed(bag) ==
    [count |-> bag.count, sum |-> bag.sum,
     bucket_counts |-> [i \in DOMAIN bag.bucket_counts |-> 0],
     bucket_magnitudes |-> bag.bucket_magnitudes]

\* ObservationBag::snapshot
Snapshot(bag) ==
    [count |-> bag.count, sum |-> bag.sum,
     bucket_counts |-> bag.bucket_counts,
     bucket_magnitudes |-> bag.bucket_magnitudes]

\* ------------------------------------------------ ObservationBagSnapshot
\* the assert! of merge with <= for ==
MergeAssertAtMost(self, other) == Len(self.bucket_counts) <= Len(other.bucket_counts)

\* the assert! of merge
MergeAssert(self, other) == Len(self.bucket_counts) = Len(other.bucket_counts)

\* merge with the count assigned instead of added
MergeAssignCount(self, other) ==
    [self EXCEPT
        !.count = other.count,
        !.sum = FAdd(@, other.sum),
        !.bucket_counts = [i \in DOMAIN @ |-> @[i] + other.bucket_counts[i]]]

\* merge that also takes the bucket bounds of the snapshot merged in
MergeRelabelling(self, other) ==
    [self EXCEPT
        !.count = @ + other.count,
        !.sum = FAdd(@, other.sum),
        !.bucket_counts = [i \in DOMAIN @ |-> @[i] + other.bucket_counts[i]],
        !.bucket_magnitudes = other.bucket_magnitudes]

\* ObservationBagSnapshot::merge, when its assert! holds
Merge(self, other) ==
    [self EXCEPT
        !.count = @ + other.count,
        !.sum = FAdd(@, other.sum),
        !.bucket_counts = [i \in DOMAIN @ |-> @[i] + other.bucket_counts[i]]]

\* the or_insert_with closure seeding the aggregate with the snapshot itself
SeedCopy(snapshot) == snapshot

\* the or_insert_with closure of ReportBuilder::build
Seed(snapshot) ==
    [count |-> 0, sum |-> 0,
     bucket_counts |-> [i \in 1..Len(snapshot.bucket_counts) |-> 0],
     bucket_magnitudes |-> snapshot.bucket_magnitudes]

\* the outcomes of ReportBuilder::build: a Report over the merged map, or a
\* panic (an assert! of merge failed and no Report is produced)
Built(merged) == [state |-> "built", bags |-> merged]

EmptyMap == [name \in {} |-> 0]

Panic == [state |-> "panic", bags |-> EmptyMap]
NoReport == [state |-> "none", bags |-> EmptyMap]

\* the fold step with the merged map rebuilt from the page alone (names of
\* earlier pages that the page does not hold are lost)
FoldPageOwnNames(acc, bags) ==
    IF acc.state = "panic" THEN Panic
    ELSE
    LET merged == acc.bags
        entry(name) == IF name \in DOMAIN merged THEN merged[name]
                       ELSE Seed(bags[name])
    IN  IF \E name \in DOMAIN bags : ~MergeAssert(entry(name), bags[name])
        THEN Panic
        ELSE Built([name \in DOMAIN bags |-> Merge(entry(name), bags[name])])

\* one step of the fold of ReportBuilder::build: the merged map after the
\* snapshots of one page are merged in, or Panic when an assert! fails
FoldPage(acc, bags) ==
    IF acc.state = "panic" THEN Panic
    ELSE
    LET merged == acc.bags
        entry(name) == IF name \in DOMAIN merged THEN merged[name]
                       ELSE Seed(bags[name])
    IN  IF \E name \in DOMAIN bags : ~MergeAssert(entry(name), bags[name])
        THEN Panic
        ELSE Built([name \in DOMAIN merged \cup DOMAIN bags |->
                IF name \in DOMAIN bags THEN Merge(entry(name), bags[name])
                ELSE merged[name]])

\* the fold of ReportBuilder::build over the pages ps
RECURSIVE Fold(_, _)
Fold(acc, ps) ==
    IF ps = << >> THEN acc
    ELSE Fold(FoldPage(acc, Head(ps).bags), Tail(ps))

\* ReportBuilder::build over the pages ps: the Report, or Panic
BuildReport(ps) == Fold(Built(EmptyMap), ps)

\* ------------------------------------------------------------ rendering
\* one line written by Display for ObservationBagSnapshot: form names the
\* format string, args the values put in its {} in order
Line(form, args) == [form |-> form, args |-> args]

\* buckets_cumulative after the loop over bucket_counts
RECURSIVE Cumulative(_)
Cumulative(bucket_counts) ==
    IF bucket_counts = << >> THEN 0
    ELSE Head(bucket_counts) + Cumulative(Tail(bucket_counts))

\* the first line with the count > 0 test made before the counter test
HeadLineStatsFirst(snapshot) ==
    IF snapshot.count > 0
    THEN Line("stats", <<snapshot.count, snapshot.sum, snapshot.sum, snapshot.count>>)
    ELSE IF AsMagnitude(snapshot.count) = snapshot.sum
    THEN Line("counter", <<snapshot.count>>)
    ELSE Line("0", << >>)

\* the first line: "{} (counter)", "{}; sum {}; avg {}" or "0"; the avg
\* argument is the f64 quotient sum / count, kept as its two operands
HeadLine(snapshot) ==
    IF AsMagnitude(snapshot.count) = snapshot.sum
    THEN Line("counter", <<snapshot.count>>)
    ELSE IF snapshot.count > 0
    THEN Line("stats", <<snapshot.count, snapshot.sum, snapshot.sum, snapshot.count>>)
    ELSE Line("0", << >>)

\* the closing line "  bucket +Inf: {}"
InfLine(snapshot) ==
    Line("+Inf", <<snapshot.count - Cumulative(snapshot.bucket_counts)>>)

\* the lines "  bucket <= {}: {}" and the closing line
BucketLines(snapshot) ==
    [i \in 1..Len(snapshot.bucket_counts) |->
        Line("bucket", <<snapshot.bucket_magnitudes[i], snapshot.bucket_counts[i]>>)]
    \o <<InfLine(snapshot)>>

\* fmt of Display for ObservationBagSnapshot: the lines it writes
Render(snapshot) ==
    IF HeadLine(snapshot).form = "0" THEN <<HeadLine(snapshot)>>
    ELSE IF snapshot.bucket_counts = << >> THEN <<HeadLine(snapshot)>>
    ELSE <<HeadLine(snapshot)>> \o BucketLines(snapshot)

\* ------------------------------------------------------------- helpers
RECURSIVE SumLens(_)
SumLens(s) == IF s = << >> THEN 0 ELSE Len(Head(s)) + SumLens(Tail(s))

Remove(s, i) == [j \in 1..(Len(s) - 1) |-> IF j < i THEN s[j] ELSE s[j + 1]]

\* Event { bag } as returned on thread t for name; Event holds only the Rc of
\* the bag, thread and name record the call that returned it
Event(t, name, bag) == [thread |-> t, name |-> name, bag |-> bag]

\* a build call on thread t with its result: "ok" with the bag of the Event
\* returned, or "err" ("name is required")
Call(t, name, buckets, result, bag) ==
    [thread |-> t, name |-> name, buckets |-> buckets,
     result |-> result, bag |-> bag]

NoCall == Call(NoName, NoName, << >>, "none", 0)

\* the entry looked up in one registry shared by all threads (BAGS a plain
\* static instead of a thread_local)
EntryShared(t, name) ==
    IF \E u \in Threads : name \in DOMAIN BAGS[u]
    THEN BAGS[CHOOSE u \in Threads : name \in DOMAIN BAGS[u]][name]
    ELSE 0

\* bags.entry(name) on the registry of thread t: the bag registered for name,
\* 0 when the entry is vacant
Entry(t, name) == IF name \in DOMAIN BAGS[t] THEN BAGS[t][name] ELSE 0

\* ------------------------------------------------------------- actions
Init ==
    /\ heap = << >>
    /\ BAGS = [t \in Threads |-> EmptyMap]
    /\ events = {}
    /\ built = NoCall
    /\ pages = << >>
    /\ builder = << >>
    /\ report = NoReport
    /\ pending = << >>
    /\ log = << >>

\* build that, for a name not registered, registers again the bag of a
\* handle built earlier for the name on the thread when there is one (a cache
\* of bags by name that clear leaves alone)
BuildReattaching(t, name, buckets) ==
    /\ IF name = NoName
       THEN /\ built' = Call(t, name, buckets, "err", 0)
            /\ UNCHANGED <<heap, BAGS, events, log>>
       ELSE IF Entry(t, name) # 0
       THEN /\ built' = Call(t, name, buckets, "ok", Entry(t, name))
            /\ events' = events \cup {Event(t, name, Entry(t, name))}
            /\ UNCHANGED <<heap, BAGS, log>>
       ELSE IF \E e \in events : e.thread = t /\ e.name = name
       THEN LET old == CHOOSE e \in events : e.thread = t /\ e.name = name
            IN  /\ BAGS' = [BAGS EXCEPT ![t] =
                              [n \in DOMAIN @ \cup {name} |->
                                  IF n = name THEN old.bag ELSE @[n]]]
                /\ built' = Call(t, name, buckets, "ok", old.bag)
                /\ UNCHANGED <<heap, events, log>>
       ELSE /\ Len(heap) < MaxBags
            /\ heap' = Append(heap, NewBag(buckets))
            /\ log' = Append(log, << >>)
            /\ BAGS' = [BAGS EXCEPT ![t] =
                          [n \in DOMAIN @ \cup {name} |->
                              IF n = name THEN Len(heap) + 1 ELSE @[n]]]
            /\ built' = Call(t, name, buckets, "ok", Len(heap) + 1)
            /\ events' = events \cup {Event(t, name, Len(heap) + 1)}
    /\ UNCHANGED <<pages, builder, report, pending>>

\* build with insert for entry().or_insert_with(): a registered name gets a
\* new bag
BuildReplacing(t, name, buckets) ==
    /\ IF name = NoName
       THEN /\ built' = Call(t, name, buckets, "err", 0)
            /\ UNCHANGED <<heap, BAGS, events, log>>
       ELSE /\ Len(heap) < MaxBags
            /\ heap' = Append(heap, NewBag(buckets))
            /\ log' = Append(log, << >>)
            /\ BAGS' = [BAGS EXCEPT ![t] =
                          [n \in DOMAIN @ \cup {name} |->
                              IF n = name THEN Len(heap) + 1 ELSE @[n]]]
            /\ built' = Call(t, name, buckets, "ok", Len(heap) + 1)
            /\ events' = events \cup {Event(t, name, Len(heap) + 1)}
    /\ UNCHANGED <<pages, builder, report, pending>>

\* build with the name checked after the registry entry is made (the entry
\* of a missing name made under the default, empty, name)
BuildBagFirst(t, name, buckets) ==
    /\ IF Entry(t, name) # 0
       THEN /\ built' = Call(t, name, buckets,
                             IF name = NoName THEN "err" ELSE "ok",
                             IF name = NoName THEN 0 ELSE Entry(t, name))
            /\ events' = IF name = NoName THEN events
                         ELSE events \cup {Event(t, name, Entry(t, name))}
            /\ UNCHANGED <<heap, BAGS, log>>
       ELSE /\ Len(heap) < MaxBags
            /\ heap' = Append(heap, NewBag(buckets))
            /\ log' = Append(log, << >>)
            /\ BAGS' = [BAGS EXCEPT ![t] =
                          [n \in DOMAIN @ \cup {name} |->
                              IF n = name THEN Len(heap) + 1 ELSE @[n]]]
            /\ built' = Call(t, name, buckets,
                             IF name = NoName THEN "err" ELSE "ok",
                             IF name = NoName THEN 0 ELSE Len(heap) + 1)
            /\ events' = IF name = NoName THEN events
                         ELSE events \cup {Event(t, name, Len(heap) + 1)}
    /\ UNCHANGED <<pages, builder, report, pending>>

\* EventBuilder::new().name(name).buckets(buckets).build() on thread t;
\* name = NoName is a builder on which name() was never called
Build(t, name, buckets) ==
    /\ IF name = NoName
       THEN /\ built' = Call(t, name, buckets, "err", 0)
            /\ UNCHANGED <<heap, BAGS, events, log>>
       ELSE IF Entry(t, name) # 0
       THEN /\ built' = Call(t, name, buckets, "ok", Entry(t, name))
            /\ events' = events \cup {Event(t, name, Entry(t, name))}
            /\ UNCHANGED <<heap, BAGS, log>>
       ELSE /\ Len(heap) < MaxBags
            /\ heap' = Append(heap, NewBag(buckets))
            /\ log' = Append(log, << >>)
            /\ BAGS' = [BAGS EXCEPT ![t] =
                          [n \in DOMAIN @ \cup {name} |->
                              IF n = name THEN Len(heap) + 1 ELSE @[n]]]
            /\ built' = Call(t, name, buckets, "ok", Len(heap) + 1)
            /\ events' = events \cup {Event(t, name, Len(heap) + 1)}
    /\ UNCHANGED <<pages, builder, report, pending>>

\* self.bag.insert(magnitude, count) through handle e
DoInsert(e, magnitude, count) ==
    /\ e \in events
    /\ SumLens(log) < MaxObs
    /\ heap' = [heap EXCEPT ![e.bag] = Insert(@, magnitude, count)]
    /\ log' = [log EXCEPT ![e.bag] =
                  Append(@, [magnitude |-> magnitude, count |-> count])]

\* Event::observe_unit
ObserveUnit(e) ==
    /\ DoInsert(e, 1, 1)
    /\ UNCHANGED <<BAGS, events, built, pages, builder, report, pending>>

\* Event::observe
Observe(e, magnitude) ==
    /\ DoInsert(e, magnitude, 1)
    /\ UNCHANGED <<BAGS, events, built, pages, builder, report, pending>>

\* Event::observe_many
ObserveMany(e, magnitude, count) ==
    /\ DoInsert(e, magnitude, count)
    /\ UNCHANGED <<BAGS, events, built, pages, builder, report, pending>>

\* Event::observe_duration: f runs to its end inside the call, then the
\* elapsed time is inserted
ObserveDuration(e, duration) ==
    /\ DoInsert(e, duration, 1)
    /\ UNCHANGED <<BAGS, events, built, pages, builder, report, pending>>

\* Event::observe_duration_async up to f().await: the future is suspended;
\* before is a history field, the count of the bag at that moment
AsyncStart(e) ==
    /\ e \in events
    /\ Len(pending) < MaxPending
    /\ pending' = Append(pending, [event |-> e, state |-> "suspended",
                                    before |-> heap[e.bag].count])
    /\ UNCHANGED <<heap, BAGS, events, built, pages, builder, report, log>>

\* the wrapped future completes: the rest of observe_duration_async runs
AsyncComplete(p, duration) ==
    /\ p \in 1..Len(pending)
    /\ pending[p].state = "suspended"
    /\ DoInsert(pending[p].event, duration, 1)
    /\ pending' = [pending EXCEPT ![p].state = "ready"]
    /\ UNCHANGED <<BAGS, events, built, pages, builder, report>>

\* a future that records the elapsed time when it is dropped (the insert
\* moved into a drop guard)
AsyncCancelRecords(p) ==
    /\ p \in 1..Len(pending)
    /\ pending[p].state = "suspended"
    /\ DoInsert(pending[p].event, 0, 1)
    /\ pending' = [pending EXCEPT ![p].state = "dropped"]
    /\ UNCHANGED <<BAGS, events, built, pages, builder, report>>

\* the suspended future is dropped
AsyncCancel(p) ==
    /\ p \in 1..Len(pending)
    /\ pending[p].state = "suspended"
    /\ pending' = [pending EXCEPT ![p].state = "dropped"]
    /\ UNCHANGED <<heap, BAGS, events, built, pages, builder, report, log>>

\* clear on one registry shared by all threads: every thread's names go
ClearShared(t) ==
    /\ BAGS' = [u \in Threads |-> EmptyMap]
    /\ UNCHANGED <<heap, events, built, pages, builder, report, pending, log>>

\* tests::clear on thread t
Clear(t) ==
    /\ BAGS' = [BAGS EXCEPT ![t] = EmptyMap]
    /\ UNCHANGED <<heap, events, built, pages, builder, report, pending, log>>

\* ReportPage { bags }; thread records the report_page call that returned it
Page(t, bags) == [thread |-> t, bags |-> bags]

\* report_page() on thread t, as the page it returns
PageOf(t) ==
    Page(t, [name \in DOMAIN BAGS[t] |-> Snapshot(heap[BAGS[t][name]])])

\* report_page() that takes the bags' contents (snapshot followed by a reset
\* of the bag to its state after new)
ReportPageTaking(t) ==
    /\ Len(pages) < MaxPages
    /\ pages' = Append(pages, PageOf(t))
    /\ heap' = [b \in 1..Len(heap) |->
                  IF \E name \in DOMAIN BAGS[t] : BAGS[t][name] = b
                  THEN NewBag(heap[b].bucket_magnitudes)
                  ELSE heap[b]]
    /\ UNCHANGED <<BAGS, events, built, builder, report, pending, log>>

\* report_page() on thread t
ReportPage(t) ==
    /\ Len(pages) < MaxPages
    /\ pages' = Append(pages, PageOf(t))
    /\ UNCHANGED <<heap, BAGS, events, built, builder, report, pending, log>>

\* ReportBuilder::add_page with the held page i (moved into the builder)
AddPage(i) ==
    /\ i \in 1..Len(pages)
    /\ builder' = Append(builder, pages[i])
    /\ pages' = Remove(pages, i)
    /\ UNCHANGED <<heap, BAGS, events, built, report, pending, log>>

\* ReportBuilder::build: the builder is consumed with its pages, and
\* ReportBuilder::new gives the next one
BuildReportAction ==
    /\ report' = BuildReport(builder)
    /\ builder' = << >>
    /\ UNCHANGED <<heap, BAGS, events, built, pages, pending, log>>

\* ------------------------------------------------------ specifications
\* The registry and the observations of one thread: it builds events,
\* observes through its handles and clears its registry.
EventNames == {"test"}
OneThread == {"t1"}
AsyncConfigs == {<< >>, <<1, 3>>}
PageMagnitudes == {1, 8}
PageConfigs == {<<1, 3>>}

Next ==
    \/ \E t \in OneThread, name \in EventNames \cup {NoName}, b \in BucketConfigs :
          Build(t, name, b)
    \/ \E e \in events : ObserveUnit(e)
    \/ \E e \in events, m \in Magnitudes : Observe(e, m)
    \/ \E e \in events, m \in ManyMagnitudes, c \in Counts : ObserveMany(e, m, c)
    \/ \E e \in events, d \in Durations : ObserveDuration(e, d)
    \/ \E t \in OneThread : Clear(t)

Spec == Init /\ [][Next]_vars

\* The registries of two threads: each builds events of the same name,
\* observes through its handles and clears its registry.
NextThreads ==
    \/ \E t \in Threads, name \in EventNames, b \in AsyncConfigs : Build(t, name, b)
    \/ \E e \in events : ObserveUnit(e)
    \/ \E e \in events, m \in PageMagnitudes : Observe(e, m)
    \/ \E t \in Threads : Clear(t)

SpecThreads == Init /\ [][NextThreads]_vars

\* The asynchronous timed observation beside plain observations.
AsyncNames == {"test"}

NextAsync ==
    \/ \E t \in OneThread, name \in AsyncNames, b \in AsyncConfigs :
          Build(t, name, b)
    \/ \E e \in events, m \in Magnitudes : Observe(e, m)
    \/ \E e \in events : AsyncStart(e)
    \/ \E p \in 1..MaxPending, d \in Durations : AsyncComplete(p, d)
    \/ \E p \in 1..MaxPending : AsyncCancel(p)

SpecAsync == Init /\ [][NextAsync]_vars

\* The capture of report pages beside builds, observations and clears.

NextPage ==
    \/ \E t \in OneThread, name \in Names, b \in PageConfigs : Build(t, name, b)
    \/ \E e \in events, m \in PageMagnitudes : Observe(e, m)
    \/ \E t \in OneThread : Clear(t)
    \/ \E t \in OneThread : ReportPage(t)

SpecPage == Init /\ [][NextPage]_vars

\* ReportBuilder over pages drawn from the pages report_page can return: each
\* page holds "test" as a bag is after at most one observation, with or
\* without "more".
TestSnapshots ==
    {Snapshot(Insert(NewBag(b), m, 1)) : b \in {<< >>, <<1, 3>>}, m \in PageMagnitudes}
    \cup {Snapshot(Insert(NewBag(<<2, 8>>), 8, 1)), Snapshot(NewBag(<< >>))}

MoreSnapshot == Snapshot(Insert(NewBag(<< >>), 2, 1))

PageInputs ==
    {Page("t1", [name \in {"test"} |-> s]) : s \in TestSnapshots}
    \cup {Page("t1", [name \in Names |-> IF name = "test" THEN s ELSE MoreSnapshot]) :
            s \in TestSnapshots}

InitReport ==
    /\ heap = << >>
    /\ BAGS = [t \in Threads |-> EmptyMap]
    /\ events = {}
    /\ built = NoCall
    /\ pages \in [1..NPages -> PageInputs]
    /\ builder = << >>
    /\ report = NoReport
    /\ pending = << >>
    /\ log = << >>

NextReport ==
    \/ \E i \in 1..NPages : AddPage(i)
    \/ BuildReportAction

SpecReport == InitReport /\ [][NextReport]_vars

\* From observation to report on one thread: a histogram "test" and an
\* event without buckets "more" are built and observed, pages are captured,
\* added to the builder and merged.
FlowEvents == {<<"test", <<1, 3>>>>, <<"more", << >>>>}

NextFlow ==
    \/ \E t \in OneThread, ev \in FlowEvents : Build(t, ev[1], ev[2])
    \/ \E e \in events, m \in PageMagnitudes : Observe(e, m)
    \/ \E t \in OneThread :
          Len(pages) + Len(builder) < MaxPages /\ ReportPage(t)
    \/ \E i \in 1..MaxPages : AddPage(i)
    \/ BuildReportAction

SpecFlow == Init /\ [][NextFlow]_vars

\* ReportBuilder over pages of counters: each page holds "test" as a bag
\* without buckets is after some number of observe_unit calls on its thread.
RECURSIVE UnitBag(_)
UnitBag(k) == IF k = 0 THEN NewBag(<< >>) ELSE Insert(UnitBag(k - 1), 1, 1)

UnitCounts == {0, 1, 2, Pow2(MantBits)}

CounterPages ==
    {Page(t, [name \in {"test"} |-> Snapshot(UnitBag(k))]) :
        t \in Threads, k \in UnitCounts}

InitCounter ==
    /\ heap = << >>
    /\ BAGS = [t \in Threads |-> EmptyMap]
    /\ events = {}
    /\ built = NoCall
    /\ pages \in [1..NPages -> CounterPages]
    /\ builder = << >>
    /\ report = NoReport
    /\ pending = << >>
    /\ log = << >>

NextCounter ==
    \/ \E i \in 1..NPages : AddPage(i)
    \/ BuildReportAction

SpecCounter == InitCounter /\ [][NextCounter]_vars

\* ---------------------------------------------------------------- claims
Last(s) == s[Len(s)]
Front(s) == SubSeq(s, 1, Len(s) - 1)

\* the exact sum of the counts of the insert calls l
RECURSIVE SumCount(_)
SumCount(l) == IF l = << >> THEN 0 ELSE SumCount(Front(l)) + Last(l).count

\* the f64 sum of magnitude*count over the insert calls l, in call order
RECURSIVE RunningSum(_)
RunningSum(l) ==
    IF l = << >> THEN 0
    ELSE FAdd(RunningSum(Front(l)),
              FMul(Last(l).magnitude, AsMagnitude(Last(l).count)))

\* C1, as amended: for every name registered on a thread, the snapshot that
\* report_page returns for it has count equal to the sum of the counts, and
\* sum equal to the f64 sum in call order of magnitude*count, of the
\* observations made on the registered bag since it was created (through
\* whichever handle holds that bag).
C1_SnapshotSums ==
    \A t \in Threads : \A name \in DOMAIN BAGS[t] :
        LET s == PageOf(t).bags[name]
            l == log[BAGS[t][name]]
        IN  s.count = SumCount(l) /\ s.sum = RunningSum(l)

\* C1 witness: a registered bag that took an observe_many and an observe
C1_Witness ==
    \E t \in Threads : \E name \in DOMAIN BAGS[t] :
        LET l == log[BAGS[t][name]]
        IN  /\ Len(l) = 2
            /\ l[1].count = 2
            /\ l[2].count = 1
            /\ PageOf(t).bags[name].count = 3

\* C1 as stated: each observation through any handle of a name on a thread
\* where the name is registered adds its count to the snapshot report_page
\* returns for that name.
C1_AnyHandleCounted ==
    [][\A e \in events :
          (Len(log'[e.bag]) > Len(log[e.bag]) /\ e.name \in DOMAIN BAGS[e.thread])
          => PageOf(e.thread)'.bags[e.name].count =
                PageOf(e.thread).bags[e.name].count + Last(log'[e.bag]).count]_vars

\* C2: each insert(m, c) adds c to the first bucket whose upper bound is
\* >= m, which has the smallest such bound, and changes no other bucket count;
\* when m exceeds every bound no bucket count changes.
C2_Placement ==
    [][\A b \in 1..Len(heap) :
          Len(log'[b]) > Len(log[b]) =>
            LET x == Last(log'[b])
                mags == heap[b].bucket_magnitudes
                old == heap[b].bucket_counts
                new == heap'[b].bucket_counts
                fit == {i \in 1..Len(mags) : x.magnitude <= mags[i]}
            IN  /\ DOMAIN new = DOMAIN old
                /\ IF fit = {} THEN new = old
                   ELSE \E i \in fit :
                          /\ \A j \in fit : i <= j /\ mags[i] <= mags[j]
                          /\ \A j \in DOMAIN old :
                                new[j] = old[j] + (IF j = i THEN x.count ELSE 0)]_vars

\* C2 witness: a bag with bounds <<1, 3>> after observe(2), placed in the
\* second bucket, and observe(8), placed in none
C2_Witness ==
    \E b \in 1..Len(heap) :
        /\ heap[b].bucket_magnitudes = <<1, 3>>
        /\ Len(log[b]) = 2
        /\ log[b][1].magnitude = 2
        /\ log[b][2].magnitude = 8
        /\ heap[b].bucket_counts = <<0, 1>>
        /\ heap[b].count = 2

\* the snapshots the pages ps hold for name, in page order
RECURSIVE SnapshotsOf(_, _)
SnapshotsOf(ps, name) ==
    IF ps = << >> THEN << >>
    ELSE (IF name \in DOMAIN Head(ps).bags THEN <<Head(ps).bags[name]>> ELSE << >>)
         \o SnapshotsOf(Tail(ps), name)

NamesOf(ps) == UNION {DOMAIN ps[i].bags : i \in 1..Len(ps)}

\* the exact sum of a sequence of integers
RECURSIVE SumSeq(_)
SumSeq(s) == IF s = << >> THEN 0 ELSE SumSeq(Front(s)) + Last(s)

\* the f64 sum of a sequence, added from 0.0 in sequence order
RECURSIVE FSumSeq(_)
FSumSeq(s) == IF s = << >> THEN 0 ELSE FAdd(FSumSeq(Front(s)), Last(s))

\* every name has bucket_counts of one length in all the pages ps
SameLengths(ps) ==
    \A name \in NamesOf(ps) :
        LET ss == SnapshotsOf(ps, name)
        IN  \A i, j \in 1..Len(ss) :
                Len(ss[i].bucket_counts) = Len(ss[j].bucket_counts)

\* a step of ReportBuilder::build
BuildStep == builder' = << >> /\ (builder # << >> \/ report' # report)

\* C3: ReportBuilder::build gives, for every name of any added page, an
\* aggregate whose count, sum (the f64 sum in page order) and bucket_counts are
\* the sums over the snapshots of that name in all added pages, with the
\* bucket length of the first one; equal pages are each added in full.
C3_BuildSums ==
    [][(BuildStep /\ SameLengths(builder)) =>
          /\ report'.state = "built"
          /\ DOMAIN report'.bags = NamesOf(builder)
          /\ \A name \in NamesOf(builder) :
                LET ss == SnapshotsOf(builder, name)
                    agg == report'.bags[name]
                IN  /\ agg.count = SumSeq([i \in 1..Len(ss) |-> ss[i].count])
                    /\ agg.sum = FSumSeq([i \in 1..Len(ss) |-> ss[i].sum])
                    /\ Len(agg.bucket_counts) = Len(ss[1].bucket_counts)
                    /\ \A k \in 1..Len(agg.bucket_counts) :
                          agg.bucket_counts[k] =
                            SumSeq([i \in 1..Len(ss) |-> ss[i].bucket_counts[k]])]_vars

\* C3 witness: a report over three pages, two of them equal, with "more" in
\* two of them
C3_Witness ==
    /\ report.state = "built"
    /\ pages = << >>
    /\ builder = << >>
    /\ DOMAIN report.bags = {"test", "more"}
    /\ report.bags["test"].count = 3
    /\ report.bags["test"].bucket_counts = <<2, 0>>
    /\ report.bags["test"].sum = 10
    /\ report.bags["more"].count = 2

Permute(ps, f) == [i \in 1..Len(ps) |-> ps[f[i]]]

\* two Reports combined as build merges a page into its map; a build that
\* panicked gave no Report to combine
Combine(r1, r2) == IF r2.state = "panic" THEN Panic ELSE FoldPage(r1, r2.bags)

\* the reports r1 and r2 agree: both panicked, or they hold the same names
\* with equal count and bucket_counts, and equal sum when withSum
Agree(r1, r2, withSum) ==
    /\ r1.state = r2.state
    /\ DOMAIN r1.bags = DOMAIN r2.bags
    /\ \A name \in DOMAIN r1.bags :
          /\ r1.bags[name].count = r2.bags[name].count
          /\ r1.bags[name].bucket_counts = r2.bags[name].bucket_counts
          /\ withSum => r1.bags[name].sum = r2.bags[name].sum

\* the pages of the builder merged in every order and in every grouping
\* into two separately built reports agree with the pages merged as added
OrderIndependent(withSum) ==
    /\ \A f \in Permutations(1..Len(builder)) :
          Agree(BuildReport(builder), BuildReport(Permute(builder, f)), withSum)
    /\ \A k \in 0..Len(builder) :
          Agree(BuildReport(builder),
                Combine(BuildReport(SubSeq(builder, 1, k)),
                        BuildReport(SubSeq(builder, k + 1, Len(builder)))),
                withSum)

\* C4, as amended: whatever the order of add_page and however the pages are
\* grouped into separately merged results, the merge fails or succeeds alike
\* and count and bucket_counts of every name are identical; sum is identical
\* for up to two pages, and with three or more the f64 additions may round
\* differently from one order to the other.
C4_MergeOrder == OrderIndependent(Len(builder) <= 2)

\* C4 witness: three pages in the builder that hold the same name with three
\* different bucket_counts ([0, 1]: the least, [1, 0] and [0, 0])
C4_Witness ==
    /\ Len(builder) = 3
    /\ BuildReport(builder).state = "built"
    /\ BuildReport(builder).bags["test"].bucket_counts = <<1, 1>>
    /\ BuildReport(builder).bags["test"].count = 3
    /\ builder[1] # builder[2]
    /\ builder[2] # builder[3]

\* C4 as stated: count, sum and bucket_counts are identical in every order
\* and grouping.
C4_SumOrderIndependent == OrderIndependent(TRUE)

\* C8: ReportBuilder::build panics, and produces no Report, when two added
\* pages hold the same name with bucket_counts of different lengths, in
\* whichever order they were added.
C8_MismatchPanics ==
    [][(BuildStep /\ ~SameLengths(builder)) => report' = Panic]_vars

\* C8 witness: a build that panicked after all three pages were added
C8_Witness ==
    /\ report = Panic
    /\ pages = << >>
    /\ builder = << >>

\* a step of EventBuilder::build on a name its thread has registered
ReuseStep ==
    /\ built' # built
    /\ built'.result = "ok"
    /\ Entry(built'.thread, built'.name) # 0

\* C5: every thread has a registry of its own: a bag is registered on, and
\* held by handles of, one thread only, so the same name built on two threads
\* gives two bags, and an observation through a handle of one thread changes
\* the page report_page returns on no other thread.
C5_NoCrossThread ==
    [][/\ \A e1, e2 \in events' : e1.bag = e2.bag => e1.thread = e2.thread
       /\ \A t \in Threads : \A name \in DOMAIN BAGS'[t] :
             Event(t, name, BAGS'[t][name]) \in events'
       /\ \A e \in events :
             Len(log'[e.bag]) > Len(log[e.bag]) =>
                \A t \in Threads \ {e.thread} : PageOf(t)' = PageOf(t)]_vars

\* C5 witness: "test" registered on both threads, observed on t1 only
C5_Witness ==
    /\ "test" \in DOMAIN BAGS["t1"]
    /\ "test" \in DOMAIN BAGS["t2"]
    /\ BAGS["t1"]["test"] # BAGS["t2"]["test"]
    /\ PageOf("t1").bags["test"].count = 2
    /\ PageOf("t2").bags["test"].count = 0

\* C6, as amended: build on a name its thread has registered returns a handle
\* of the registered bag, allocates nothing and leaves the registry, the
\* bounds and the counts of every bag as they were, whatever buckets the call
\* gave; an observation through any handle of the registered bag shows in the
\* page report_page returns next.  (A handle built for the name before a
\* clear holds another bag.)
C6_FirstRegistrationWins ==
    [][/\ ReuseStep =>
            /\ built'.bag = Entry(built'.thread, built'.name)
            /\ Event(built'.thread, built'.name, built'.bag) \in events'
            /\ heap' = heap
            /\ BAGS' = BAGS
            /\ log' = log
       /\ \A e \in events :
            (Len(log'[e.bag]) > Len(log[e.bag]) /\ Entry(e.thread, e.name) = e.bag)
            => PageOf(e.thread)'.bags[e.name].count =
                  PageOf(e.thread).bags[e.name].count + Last(log'[e.bag]).count]_vars

\* C6 witness: the last build gave other buckets than the only bag has; the
\* bag has its first bounds and the counts of two observations
C6_Witness ==
    /\ built.result = "ok"
    /\ Entry(built.thread, built.name) = built.bag
    /\ built.buckets = <<2, 8>>
    /\ heap[built.bag].bucket_magnitudes = <<1, 3>>
    /\ Len(heap) = 1
    /\ Len(log[built.bag]) = 2
    /\ heap[built.bag].count = 2
    /\ heap[built.bag].bucket_counts = <<1, 1>>

\* C6 as stated: after build on a registered name, every handle built for
\* that name on that thread holds the bag the call returned.
C6_EveryHandleSameBag ==
    [][ReuseStep =>
          \A e \in events' :
              (e.thread = built'.thread /\ e.name = built'.name)
              => e.bag = built'.bag]_vars

\* C9: build without a name returns the error and changes neither the
\* registry of any thread nor any bag nor the handles; with a name it
\* returns a handle.
C9_NoNameNoBag ==
    [][built' # built =>
          /\ (built'.result = "err") = (built'.name = NoName)
          /\ built'.result = "err" =>
                /\ heap' = heap
                /\ BAGS' = BAGS
                /\ events' = events
                /\ log' = log]_vars

\* C9 witness: a build without a name failed on a thread whose registry
\* holds an observed bag
C9_Witness ==
    /\ built.result = "err"
    /\ built.name = NoName
    /\ built.thread \in Threads
    /\ "test" \in DOMAIN BAGS[built.thread]
    /\ heap[BAGS[built.thread]["test"]].count = 1

\* C7: report_page changes no bag and no registry, and the page it returns
\* is the page the next report_page on that thread returns when nothing
\* happens in between.
C7_ReportPageReadOnly ==
    [][Len(pages') > Len(pages) =>
          /\ heap' = heap
          /\ BAGS' = BAGS
          /\ log' = log
          /\ \E t \in Threads :
                /\ Last(pages') = PageOf(t)
                /\ Last(pages') = PageOf(t)']_vars

\* C7 witness: two pages of t1 with the same contents, both names observed
C7_Witness ==
    /\ Len(pages) = 2
    /\ pages[1] = pages[2]
    /\ pages[1].thread = "t1"
    /\ DOMAIN pages[1].bags = {"test", "more"}
    /\ pages[1].bags["test"].count = 1
    /\ pages[1].bags["more"].count = 1
    /\ pages[1].bags["test"].bucket_counts = <<1, 0>>

\* C10: observe_duration_async changes nothing when it is called and
\* nothing when its future is dropped while suspended; when the wrapped
\* operation completes it inserts once, with count 1, into the bag of its
\* handle; a future that completed or was dropped does nothing more; any
\* other insert made meanwhile adds its count to its bag.
C10_AsyncObservation ==
    [][/\ Len(pending') > Len(pending) =>
             /\ heap' = heap
             /\ log' = log
             /\ Last(pending').state = "suspended"
       /\ \A p \in 1..Len(pending) :
             /\ pending[p].state # "suspended" => pending'[p] = pending[p]
             /\ (pending[p].state = "suspended" /\ pending'[p].state = "dropped")
                   => heap' = heap /\ log' = log
             /\ (pending[p].state = "suspended" /\ pending'[p].state = "ready")
                   => \A b \in 1..Len(heap) :
                         IF b = pending[p].event.bag
                         THEN /\ heap'[b].count = heap[b].count + 1
                              /\ Len(log'[b]) = Len(log[b]) + 1
                              /\ Last(log'[b]).count = 1
                         ELSE heap'[b] = heap[b] /\ log'[b] = log[b]
       /\ (pending' = pending /\ log' # log /\ Len(heap') = Len(heap)) =>
             \E b \in 1..Len(heap) :
                /\ Len(log'[b]) = Len(log[b]) + 1
                /\ heap'[b].count = heap[b].count + Last(log'[b]).count
                /\ heap'[b].sum =
                      FAdd(heap[b].sum,
                           FMul(Last(log'[b]).magnitude, Last(log'[b]).count))]_vars

\* C10 witness: the first future was dropped, the second is still
\* suspended, and the bag both were started on, then empty, has taken one
\* observation since
C10_Witness ==
    /\ Len(pending) = 2
    /\ pending[1].state = "dropped"
    /\ pending[2].state = "suspended"
    /\ pending[1].event = pending[2].event
    /\ pending[1].before = 0
    /\ pending[2].before = 0
    /\ heap[pending[2].event.bag].count = 1
    /\ Len(log[pending[2].event.bag]) = 1

\* the snapshots of the pages ps
SnapshotsIn(ps) ==
    UNION {{ps[i].bags[name] : name \in DOMAIN ps[i].bags} : i \in 1..Len(ps)}

\* C11: every captured snapshot whose count is 0 renders as the bare "0"
\* line, with no bucket lines.
C11_ZeroIsBare ==
    \A snapshot \in SnapshotsIn(pages) :
        snapshot.count = 0 => Render(snapshot) = <<Line("0", << >>)>>

InfValue(snapshot) == InfLine(snapshot).args[1]

\* the total count of the insert calls l whose magnitude exceeds every bound
RECURSIVE Exceeding(_, _)
Exceeding(l, bounds) ==
    IF l = << >> THEN 0
    ELSE Exceeding(Front(l), bounds) +
         (IF \A i \in 1..Len(bounds) : Last(l).magnitude > bounds[i]
          THEN Last(l).count ELSE 0)

\* C13: the +Inf value, count minus the sum of the finite bucket counts, is
\* never negative, in the snapshots report_page returns, in the pages it
\* captures and in merged aggregates; for a snapshot it is the total count of
\* the observations on the bag that exceeded every bound, and for a merged
\* aggregate it is the sum of the +Inf values of the snapshots merged.
C13_InfBucket ==
    [][/\ \A t \in Threads : \A name \in DOMAIN BAGS[t] :
             LET snapshot == PageOf(t).bags[name]
             IN  /\ InfValue(snapshot) >= 0
                 /\ InfValue(snapshot) =
                       Exceeding(log[BAGS[t][name]], snapshot.bucket_magnitudes)
       /\ Len(pages') > Len(pages) =>
             \A snapshot \in SnapshotsIn(<<Last(pages')>>) : InfValue(snapshot) >= 0
       /\ (BuildStep /\ report'.state = "built") =>
             /\ DOMAIN report'.bags = NamesOf(builder)
             /\ \A name \in DOMAIN report'.bags :
                   LET ss == SnapshotsOf(builder, name)
                   IN  /\ InfValue(report'.bags[name]) >= 0
                       /\ InfValue(report'.bags[name]) =
                             SumSeq([i \in 1..Len(ss) |-> InfValue(ss[i])])]_vars

\* C13 witness: a report over two pages of the histogram, the first taken
\* after one observation above every bound and the second after one more
C13_Witness ==
    /\ report.state = "built"
    /\ "test" \in DOMAIN report.bags
    /\ report.bags["test"].count = 3
    /\ Render(report.bags["test"]) =
          <<Line("stats", <<3, 24, 24, 3>>), Line("bucket", <<1, 0>>),
            Line("bucket", <<3, 0>>), Line("+Inf", <<3>>)>>

\* C14: names stay independently keyed: a page holds exactly the names
\* registered on the capturing thread, each with a bag of its own; an
\* observation on one name changes the snapshot of no other name; the names
\* of a built report are the union of the names of the added pages, none
\* when no page was added.
C14_NamesIndependent ==
    [][/\ \A t \in Threads :
             /\ DOMAIN PageOf(t).bags = DOMAIN BAGS[t]
             /\ \A n1, n2 \in DOMAIN BAGS[t] :
                   n1 # n2 => BAGS[t][n1] # BAGS[t][n2]
       /\ Len(pages') > Len(pages) =>
             DOMAIN Last(pages').bags = DOMAIN BAGS[Last(pages').thread]
       /\ \A e \in events :
             Len(log'[e.bag]) > Len(log[e.bag]) =>
                \A name \in DOMAIN BAGS[e.thread] \ {e.name} :
                    PageOf(e.thread)'.bags[name] = PageOf(e.thread).bags[name]
       /\ (BuildStep /\ SameLengths(builder)) =>
             /\ report'.state = "built"
             /\ DOMAIN report'.bags = NamesOf(builder)
             /\ Cardinality(DOMAIN report'.bags) = Cardinality(NamesOf(builder))
             /\ builder = << >> => report'.bags = EmptyMap]_vars

\* C14 witness: a report with two entries, "test" observed twice and "more"
\* never
C14_Witness ==
    /\ report.state = "built"
    /\ DOMAIN report.bags = {"test", "more"}
    /\ Cardinality(DOMAIN report.bags) = 2
    /\ report.bags["test"].count = 2
    /\ report.bags["test"].bucket_counts = <<1, 0>>
    /\ report.bags["more"].count = 0
    /\ Len(pages) = 1

\* C15: clear empties the registry of the calling thread only: right after
\* it report_page of that thread returns a page with no entries, no bag or
\* handle changes and the registry and page of every other thread are as
\* before; a build of a name that is not registered (never used, or used
\* before the clear) registers a bag not held by any handle, with count 0,
\* sum 0, zeroed bucket counts and the bounds of that build call.
C15_ClearOwnRegistry ==
    [][/\ \A t \in Threads :
             (BAGS[t] # EmptyMap /\ BAGS'[t] = EmptyMap) =>
                /\ PageOf(t)'.bags = EmptyMap
                /\ heap' = heap
                /\ events' = events
                /\ \A u \in Threads \ {t} :
                      BAGS'[u] = BAGS[u] /\ PageOf(u)' = PageOf(u)
       /\ (built' # built /\ built'.result = "ok"
              /\ Entry(built'.thread, built'.name) = 0) =>
             /\ \A e \in events : e.bag # built'.bag
             /\ built'.bag \notin DOMAIN heap
             /\ BAGS'[built'.thread][built'.name] = built'.bag
             /\ heap'[built'.bag] =
                   [count |-> 0, sum |-> 0,
                    bucket_counts |-> [i \in 1..Len(built'.buckets) |-> 0],
                    bucket_magnitudes |-> built'.buckets]
             /\ \A b \in DOMAIN heap : heap'[b] = heap[b]]_vars

\* C15 witness: "test" was observed on t1 without buckets, cleared, and built
\* again with bounds <<1, 3>>: the registered bag is the new, empty one
C15_Witness ==
    /\ Len(heap) = 2
    /\ Event("t1", "test", 1) \in events
    /\ Event("t1", "test", 2) \in events
    /\ heap[1].count = 2
    /\ heap[1].bucket_magnitudes = << >>
    /\ BAGS["t1"] = [name \in {"test"} |-> 2]
    /\ PageOf("t1").bags["test"] =
          [count |-> 0, sum |-> 0, bucket_counts |-> <<0, 0>>,
           bucket_magnitudes |-> <<1, 3>>]

\* bucket_counts.length == bucket_magnitudes.length and
\* count >= sum of bucket_counts
WellFormed(x) ==
    /\ Len(x.bucket_counts) = Len(x.bucket_magnitudes)
    /\ x.count >= SumSeq(x.bucket_counts)

\* C16: every bag, every snapshot of a page, held or added to the builder,
\* and every aggregate of a report has as many bucket counts as bucket bounds
\* and a count at least the sum of its bucket counts.
C16_Structural ==
    /\ \A b \in 1..Len(heap) : WellFormed(heap[b])
    /\ \A snapshot \in SnapshotsIn(pages) \cup SnapshotsIn(builder) :
          WellFormed(snapshot)
    /\ \A name \in DOMAIN report.bags : WellFormed(report.bags[name])

\* C16 witness: the histogram after an observation in a bucket and one
\* above every bound, a page of it held, and a report that merged an earlier
\* page with a later one
C16_Witness ==
    /\ report.state = "built"
    /\ "test" \in DOMAIN report.bags
    /\ report.bags["test"].count = 3
    /\ report.bags["test"].bucket_counts = <<2, 0>>
    /\ Len(pages) = 1
    /\ pages[1].bags["test"].count = 2
    /\ \E b \in 1..Len(heap) :
          heap[b].count = 2 /\ heap[b].bucket_counts = <<1, 0>>

\* the total count of the insert calls l placed in bucket k: those with
\* magnitude <= bounds[k] and above every earlier bound
RECURSIVE Placed(_, _, _)
Placed(l, bounds, k) ==
    IF l = << >> THEN 0
    ELSE Placed(Front(l), bounds, k) +
         (IF /\ Last(l).magnitude <= bounds[k]
             /\ \A j \in 1..(k - 1) : Last(l).magnitude > bounds[j]
          THEN Last(l).count ELSE 0)

\* C17: the page report_page returns holds, for each name registered on the
\* thread, the count, the sum, added in call order, and the bucket counts of
\* exactly the observations made on its bag before the call; no later step
\* changes a page already captured.
C17_FrozenCopy ==
    [][/\ Len(pages') >= Len(pages)
       /\ \A i \in 1..Len(pages) : pages'[i] = pages[i]
       /\ Len(pages') > Len(pages) =>
             \E t \in Threads :
                /\ Last(pages').thread = t
                /\ DOMAIN Last(pages').bags = DOMAIN BAGS[t]
                /\ \A name \in DOMAIN BAGS[t] :
                      LET snapshot == Last(pages').bags[name]
                          bag == heap[BAGS[t][name]]
                          l == log[BAGS[t][name]]
                      IN  /\ snapshot.count = SumCount(l)
                          /\ snapshot.sum = RunningSum(l)
                          /\ snapshot.bucket_magnitudes = bag.bucket_magnitudes
                          /\ DOMAIN snapshot.bucket_counts = DOMAIN bag.bucket_magnitudes
                          /\ \A k \in DOMAIN snapshot.bucket_counts :
                                snapshot.bucket_counts[k] =
                                   Placed(l, bag.bucket_magnitudes, k)]_vars

\* C17 witness: a page captured after one observation is held unchanged
\* while its bag has taken a second one, captured in a second page
C17_Witness ==
    /\ Len(pages) = 2
    /\ pages[1].bags = [name \in {"test"} |->
                          [count |-> 1, sum |-> 1, bucket_counts |-> <<1, 0>>,
                           bucket_magnitudes |-> <<1, 3>>]]
    /\ DOMAIN pages[2].bags = {"test"}
    /\ pages[2].bags["test"].count = 2
    /\ pages[2].bags["test"].bucket_counts = <<1, 0>>
    /\ Len(heap) = 1
    /\ heap[1].count = 2

\* a step that empties the registry of thread t
Cleared(t) == BAGS[t] # EmptyMap /\ BAGS'[t] = EmptyMap

\* C18: over every step of a thread other than a clear, each name of the
\* page report_page returns stays in it, and its count and each of its bucket
\* counts do not decrease; so they do not from one capture to a later one
\* with no clear in between.
C18_Monotonic ==
    [][/\ \A t \in Threads :
             ~Cleared(t) =>
                \A name \in DOMAIN PageOf(t).bags :
                    /\ name \in DOMAIN PageOf(t)'.bags
                    /\ PageOf(t)'.bags[name].count >= PageOf(t).bags[name].count
                    /\ DOMAIN PageOf(t)'.bags[name].bucket_counts =
                          DOMAIN PageOf(t).bags[name].bucket_counts
                    /\ \A k \in DOMAIN PageOf(t).bags[name].bucket_counts :
                          PageOf(t)'.bags[name].bucket_counts[k] >=
                             PageOf(t).bags[name].bucket_counts[k]
       /\ Len(pages') > Len(pages) =>
             \E t \in Threads : Last(pages') = PageOf(t)]_vars

\* C18 witness: two pages of the only bag ever allocated (so with no clear
\* and new build in between), the later with "test" grown in count and in
\* its first bucket
C18_Witness ==
    /\ Len(heap) = 1
    /\ Len(pages) = 2
    /\ "test" \in DOMAIN pages[1].bags
    /\ "test" \in DOMAIN pages[2].bags
    /\ pages[1].bags["test"].count = 0
    /\ pages[2].bags["test"].count = 2
    /\ pages[2].bags["test"].bucket_counts = <<2, 0>>

\* the handle e does not hold the bag registered for its name on its thread
Detached(e) == Entry(e.thread, e.name) # e.bag

\* C19: handles survive clear, detached: a clear removes no handle and
\* changes no bag, and leaves every handle of the thread detached; a detached
\* handle stays detached, and an observation through it goes to its own bag
\* and changes nothing in the page report_page returns; a build for a name
\* not registered gives a bag no earlier handle holds.
C19_DetachedHandles ==
    [][/\ events \subseteq events'
       /\ \A t \in Threads :
             Cleared(t) =>
                /\ heap' = heap
                /\ \A e \in events : e.thread = t => Detached(e)'
       /\ \A e \in events :
             /\ Detached(e) => Detached(e)'
             /\ (Detached(e) /\ Len(log'[e.bag]) > Len(log[e.bag])) =>
                   /\ PageOf(e.thread)' = PageOf(e.thread)
                   /\ heap'[e.bag].count =
                         heap[e.bag].count + Last(log'[e.bag]).count
       /\ (built' # built /\ built'.result = "ok"
              /\ Entry(built'.thread, built'.name) = 0) =>
             \A e \in events : e.bag # built'.bag]_vars

\* C19 witness: "test" built, cleared and built again; the first handle's
\* bag holds two observations and the registered bag none
C19_Witness ==
    /\ Event("t1", "test", 1) \in events
    /\ Event("t1", "test", 2) \in events
    /\ BAGS["t1"] = [name \in {"test"} |-> 2]
    /\ Detached(Event("t1", "test", 1))
    /\ heap[1].count = 3
    /\ Len(log[1]) = 2
    /\ PageOf("t1").bags["test"].count = 0

\* C20: when the added pages hold a name with equally long bucket_counts,
\* whatever their bounds, build succeeds and gives the aggregate the
\* bucket_magnitudes of the first added page that holds the name, with the
\* bucket counts added position by position.
C20_FirstBoundsLabel ==
    [][(BuildStep /\ SameLengths(builder)) =>
          /\ report'.state = "built"
          /\ \A name \in NamesOf(builder) :
                LET ss == SnapshotsOf(builder, name)
                    agg == report'.bags[name]
                IN  /\ agg.bucket_magnitudes = ss[1].bucket_magnitudes
                    /\ DOMAIN agg.bucket_counts = DOMAIN ss[1].bucket_counts
                    /\ \A k \in DOMAIN agg.bucket_counts :
                          agg.bucket_counts[k] =
                            SumSeq([i \in 1..Len(ss) |-> ss[i].bucket_counts[k]])]_vars

\* C20 witness: a report whose "test" is labelled <<2, 8>>, the bounds of
\* the page added first, with the bucket counts of that page, <<0, 1>>, and
\* of a page with bounds <<1, 3>>, <<1, 0>>, added position by position
C20_Witness ==
    /\ report.state = "built"
    /\ builder = << >>
    /\ "test" \in DOMAIN report.bags
    /\ report.bags["test"].bucket_magnitudes = <<2, 8>>
    /\ report.bags["test"].bucket_counts = <<1, 1>>
    /\ report.bags["test"].count = 2

====
